---- MODULE Spec2Model ----
(***************************************************************************)
(* A model of the trivial statsd client (src/src/lib.rs) and of its        *)
(* thread-local PCG32 sampler (src/src/pcg32.rs).                          *)
(*                                                                         *)
(* Fixed-width integers are kept at their width: a u64 is a sequence of 8  *)
(* bytes and a u32 a sequence of 4 bytes, least significant byte first.    *)
(* Text is a sequence of one-character strings.  An f64 sampling rate is   *)
(* drawn from the dyadic grid k / 2^RateBits and is represented by the     *)
(* integer k; on that grid 1.0 - rate and its product with 4294967295.0    *)
(* are exact in f64, so the integer arithmetic below is the f64 result.    *)
(***************************************************************************)
EXTENDS Integers, Sequences, FiniteSets, TLC

(* ------------------------------ bounds --------------------------------- *)
\* rates are multiples of 1 / 2^RateBits
RateBits == 1
\* outlets constructed in one run
MaxOutlets == 2
\* metric calls (sampler draws) in one run
MaxDraws == 2
\* length in bytes of the oversized key
LongKeyLen == 580

(* --------------------------- program constants ------------------------- *)
MAX_UDP_PAYLOAD == 576
FULL_SAMPLING_RATE == 2 ^ RateBits

(* --------------------------- byte arithmetic --------------------------- *)
Byte == 0 .. 255

RECURSIVE AddCarry(_, _, _, _)
AddCarry(a, b, i, c) ==
    IF i > Len(a) THEN << >>
    ELSE LET s == a[i] + b[i] + c
         IN  << s % 256 >> \o AddCarry(a, b, i + 1, s \div 256)

\* u64::wrapping_add
wrapping_add(a, b) == AddCarry(a, b, 1, 0)

RECURSIVE SubBorrow(_, _, _, _)
SubBorrow(a, b, i, c) ==
    IF i > Len(a) THEN << >>
    ELSE LET s == a[i] - b[i] - c
         IN  << (s + 256) % 256 >> \o SubBorrow(a, b, i + 1, IF s < 0 THEN 1 ELSE 0)

\* u64 subtraction (the clock is monotonic, so no borrow leaves the top byte)
wrapping_sub(a, b) == SubBorrow(a, b, 1, 0)

\* the sum of the byte products a[j] * b[k] with j + k = i + 1
ColSum(a, b, i) ==
    CASE i = 1 -> a[1] * b[1]
      [] i = 2 -> a[1] * b[2] + a[2] * b[1]
      [] i = 3 -> a[1] * b[3] + a[2] * b[2] + a[3] * b[1]
      [] i = 4 -> a[1] * b[4] + a[2] * b[3] + a[3] * b[2] + a[4] * b[1]
      [] i = 5 -> a[1] * b[5] + a[2] * b[4] + a[3] * b[3] + a[4] * b[2] + a[5] * b[1]
      [] i = 6 -> a[1] * b[6] + a[2] * b[5] + a[3] * b[4] + a[4] * b[3] + a[5] * b[2]
                    + a[6] * b[1]
      [] i = 7 -> a[1] * b[7] + a[2] * b[6] + a[3] * b[5] + a[4] * b[4] + a[5] * b[3]
                    + a[6] * b[2] + a[7] * b[1]
      [] i = 8 -> a[1] * b[8] + a[2] * b[7] + a[3] * b[6] + a[4] * b[5] + a[5] * b[4]
                    + a[6] * b[3] + a[7] * b[2] + a[8] * b[1]

RECURSIVE MulCarry(_, _, _, _)
MulCarry(a, b, i, c) ==
    IF i > Len(a) THEN << >>
    ELSE LET s == ColSum(a, b, i) + c
         IN  << s % 256 >> \o MulCarry(a, b, i + 1, s \div 256)

\* u64::wrapping_mul
wrapping_mul(a, b) == MulCarry(a, b, 1, 0)

RECURSIVE ScaleCarry(_, _, _, _)
ScaleCarry(a, n, i, c) ==
    IF i > Len(a) THEN << >>
    ELSE LET s == a[i] * n + c
         IN  << s % 256 >> \o ScaleCarry(a, n, i + 1, s \div 256)

\* a * n for a small natural n, at the width of a
Scale(a, n) == ScaleCarry(a, n, 1, 0)

RECURSIVE DivStep(_, _, _, _)
DivStep(a, d, i, r) ==
    IF i = 0 THEN [q |-> << >>, r |-> r]
    ELSE LET cur  == r * 256 + a[i]
             rest == DivStep(a, d, i - 1, cur % d)
         IN  [q |-> rest.q \o << cur \div d >>, r |-> rest.r]

\* quotient and remainder of a by a small natural d
DivMod(a, d) == DivStep(a, d, Len(a), 0)

IsZero(a) == \A i \in 1 .. Len(a) : a[i] = 0

\* unsigned a > b, most significant byte first
Gt(a, b) ==
    \E i \in 1 .. Len(a) :
        /\ a[i] > b[i]
        /\ \A j \in (i + 1) .. Len(a) : a[j] = b[j]

\* a small natural as a u64
U64(n) ==
    [i \in 1 .. 8 |->
        IF i <= 3 THEN (n \div (256 ^ (i - 1))) % 256
        ELSE IF i = 4 THEN n \div 16777216
        ELSE 0]

U32_MAX == << 255, 255, 255, 255 >>
U32_ZERO == << 0, 0, 0, 0 >>
U64_MAX == << 255, 255, 255, 255, 255, 255, 255, 255 >>

(* ------------------------------ pcg32.rs ------------------------------- *)
\* 6364136223846793005
PCG_MULT == << 45, 127, 149, 76, 45, 244, 81, 88 >>
\* 1442695040888963407
PCG_INC == << 79, 129, 103, 247, 126, 123, 5, 20 >>
\* 5573589319906701683
PCG_SEED == << 115, 49, 243, 208, 244, 93, 89, 77 >>

\* seed.wrapping_mul(6364136223846793005).wrapping_add(1442695040888963407)
PCG_SEED_MIXED == wrapping_add(wrapping_mul(PCG_SEED, PCG_MULT), PCG_INC)

\* fn seed(), with the value precise_time_ns() returned
seed(now) ==
    wrapping_add(wrapping_mul(wrapping_add(PCG_SEED_MIXED, now), PCG_MULT), PCG_INC)

\* the state random() stores back
pcg_advance(oldstate) == wrapping_add(wrapping_mul(oldstate, PCG_MULT), PCG_INC)

Bits(a) == [k \in 0 .. (8 * Len(a) - 1) |-> (a[(k \div 8) + 1] \div (2 ^ (k % 8))) % 2]

Shr(bits, n) ==
    [k \in DOMAIN bits |-> IF (k + n) \in DOMAIN bits THEN bits[k + n] ELSE 0]

Xor(x, y) == [k \in DOMAIN x |-> (x[k] + y[k]) % 2]

FromBits32(b) ==
    [i \in 1 .. 4 |->
        LET o == 8 * (i - 1)
        IN  b[o] + 2 * b[o + 1] + 4 * b[o + 2] + 8 * b[o + 3] + 16 * b[o + 4]
              + 32 * b[o + 5] + 64 * b[o + 6] + 128 * b[o + 7]]

\* the value random() returns for the state it read
pcg_output(oldstate) ==
    LET old == Bits(oldstate)
        x   == Shr(Xor(Shr(old, 18), old), 27)
        rot == old[59] + 2 * old[60] + 4 * old[61] + 8 * old[62] + 16 * old[63]
    IN  FromBits32([k \in 0 .. 31 |-> x[(k + rot) % 32]])

\* the thread-local PCG32_STATE before the thread's first random()
Unseeded == << >>

\* pub fn random(): the thread-local state is seeded lazily from the clock,
\* advanced, and the permuted old state is returned
random(state, now) ==
    LET oldstate == IF state = Unseeded THEN seed(now) ELSE state
    IN  [value       |-> pcg_output(oldstate),
         state       |-> pcg_advance(oldstate),
         clock_reads |-> IF state = Unseeded THEN 1 ELSE 0]

(* -------------------------------- text --------------------------------- *)
Digit(d) == << "0", "1", "2", "3", "4", "5", "6", "7", "8", "9" >>[d + 1]

RECURSIVE NatDecimal(_)
NatDecimal(n) ==
    IF n < 10 THEN << Digit(n) >> ELSE NatDecimal(n \div 10) \o << Digit(n % 10) >>

\* four digits, leading zeros kept
FourDigits(n) ==
    << Digit(n \div 1000), Digit((n \div 100) % 10), Digit((n \div 10) % 10), Digit(n % 10) >>

\* the decimal digits of a nonzero a, rendered four at a time from the low end
RECURSIVE Decimal(_)
Decimal(a) ==
    LET dm == DivMod(a, 10000)
    IN  IF IsZero(dm.q) THEN NatDecimal(dm.r) ELSE Decimal(dm.q) \o FourDigits(dm.r)

\* u64::to_string
to_string(a) == IF IsZero(a) THEN << "0" >> ELSE Decimal(a)

RateDen == 2 ^ RateBits

RECURSIVE FracDigits(_)
FracDigits(f) ==
    IF f = 0 THEN << >>
    ELSE << Digit((f * 10) \div RateDen) >> \o FracDigits((f * 10) % RateDen)

\* format!("{}", float_rate): the shortest decimal text of the f64 k / RateDen
fmt_f64(k) ==
    LET m == IF k < 0 THEN 0 - k ELSE k
    IN  (IF k < 0 THEN << "-" >> ELSE << >>)
          \o to_string(U64(m \div RateDen))
          \o (IF m % RateDen = 0 THEN << >> ELSE << "." >> \o FracDigits(m % RateDen))

\* String::with_capacity
with_capacity(n) == [cap |-> n, data |-> << >>]

Max(a, b) == IF a >= b THEN a ELSE b
Min(a, b) == IF a <= b THEN a ELSE b

\* a push_str that stops at the buffer's capacity
push_str_truncating(str, s) ==
    [cap  |-> str.cap,
     data |-> SubSeq(str.data \o s, 1, Min(str.cap, Len(str.data) + Len(s)))]

\* String::push_str: the buffer grows when the text does not fit
push_str(str, s) ==
    [cap  |-> IF Len(str.data) + Len(s) > str.cap
                  THEN Max(2 * str.cap, Len(str.data) + Len(s))
                  ELSE str.cap,
     data |-> str.data \o s]

HasRateTag(s) == \E i \in 1 .. (Len(s) - 1) : s[i] = "|" /\ s[i + 1] = "@"

(* ------------------------------- lib.rs -------------------------------- *)
\* an assertion that forgets the lower end of the interval
assert_rate_upper_only(float_rate) == float_rate <= FULL_SAMPLING_RATE

\* assert!(float_rate <= 1.0 && float_rate >= 0.0)
assert_rate(float_rate) == float_rate <= FULL_SAMPLING_RATE /\ float_rate >= 0

\* x as u32 for x = d * 4294967295.0 / RateDen: truncating, saturating
as_u32(d) ==
    IF d < 0 THEN U32_ZERO
    ELSE LET q == DivMod(Scale(U32_MAX \o U32_ZERO, d), RateDen).q
         IN  IF IsZero(SubSeq(q, 5, 8)) THEN SubSeq(q, 1, 4) ELSE U32_MAX

\* a conversion that scales the rate itself instead of its complement
to_int_rate_direct(float_rate) == as_u32(float_rate)

\* fn to_int_rate: ((1.0 - float_rate) * u32::MAX as f64) as u32
to_int_rate(float_rate) == as_u32(FULL_SAMPLING_RATE - float_rate)

\* an acceptance test with >= in place of >
accept_sample_inclusive(int_rate, state, now) ==
    LET r == random(state, now)
    IN  [accept |-> ~Gt(int_rate, r.value), rnd |-> r.value, state |-> r.state,
         draws |-> 1, clock_reads |-> r.clock_reads]

\* fn accept_sample: pcg32::random() > int_rate
accept_sample(int_rate, state, now) ==
    LET r == random(state, now)
    IN  [accept |-> Gt(r.value, int_rate), rnd |-> r.value, state |-> r.state,
         draws |-> 1, clock_reads |-> r.clock_reads]

\* a suffix rendered for every rate, full sampling included
rate_suffix_always(float_rate) ==
    IF float_rate <= FULL_SAMPLING_RATE THEN << "|", "@" >> \o fmt_f64(float_rate) ELSE << >>

\* let rate_suffix = if float_rate < 1.0 { format!("|@{}", float_rate) } else { "" }
rate_suffix(float_rate) ==
    IF float_rate < FULL_SAMPLING_RATE THEN << "|", "@" >> \o fmt_f64(float_rate) ELSE << >>

\* StatsdOutlet::outlet: Ok(outlet), or a panic when an assertion fails
outlet(sender, prefix_str, float_rate) ==
    IF ~assert_rate(float_rate) THEN [result |-> "panic", value |-> << >>]
    ELSE [result |-> "Ok",
          value  |-> << [sender       |-> sender,
                         prefix       |-> prefix_str,
                         int_rate     |-> to_int_rate(float_rate),
                         time_suffix  |-> << "|", "m", "s" >> \o rate_suffix(float_rate),
                         gauge_suffix |-> << "|", "g" >> \o rate_suffix(float_rate),
                         count_suffix |-> << "|", "c" >> \o rate_suffix(float_rate)] >>]

\* a sender that tries once more when the first transmission fails
send_stats_retrying(sock, str, io) ==
    [ret      |-> "unit",
     attempts |-> IF io \in {"WouldBlock", "Refused"}
                      THEN << [dest |-> sock.peer, payload |-> str, io |-> io],
                              [dest |-> sock.peer, payload |-> str, io |-> "Ok"] >>
                      ELSE << [dest |-> sock.peer, payload |-> str, io |-> io] >>]

\* impl SendStats for UdpSocket: one UdpSocket::send, whose result io (all of
\* the text sent, a short write, or an error) is matched and discarded
send_stats(sock, str, io) ==
    [ret      |-> "unit",
     attempts |-> << [dest |-> sock.peer, payload |-> str, io |-> io] >>]

RECURSIVE PushAll(_, _, _)
PushAll(str, strings, i) ==
    IF i > Len(strings) THEN str
    ELSE PushAll(push_str(str, strings[i]), strings, i + 1)

\* the prefix with a '.' appended when it does not end with one
with_separator(prefix) ==
    IF Len(prefix) > 0 /\ prefix[Len(prefix)] = "." THEN prefix ELSE prefix \o << "." >>

\* a send that prepends the prefix with a separator added
send_with_separator(self, strings, io) ==
    LET str == PushAll(push_str(with_capacity(MAX_UDP_PAYLOAD), with_separator(self.prefix)),
                       strings, 1)
    IN  send_stats(self.sender, str.data, io)

\* StatsdOutlet::send: prefix and parts pushed into one buffer, then sent
send(self, strings, io) ==
    LET str == PushAll(push_str(with_capacity(MAX_UDP_PAYLOAD), self.prefix), strings, 1)
    IN  send_stats(self.sender, str.data, io)

\* StatsdOutlet::send_time_ms
send_time_ms(self, key, interval_ms, io) ==
    send(self, << key, << ":" >>, to_string(interval_ms), self.time_suffix >>, io)

NS_PER_MS == 1000000

\* StartTime::elapsed_ms: (precise_time_ns() - self.0) / 1_000_000
elapsed_ms(start_time, now) == DivMod(wrapping_sub(now, start_time), NS_PER_MS).q

\* what a call did: the sampler's new state and value, the transmissions
\* attempted, the clock reads taken and the value returned to the caller
Effect(a, s, reads) ==
    [state       |-> a.state,
     rnd         |-> a.rnd,
     accepted    |-> a.accept,
     draws       |-> a.draws,
     clock_reads |-> a.clock_reads + reads,
     attempts    |-> s.attempts,
     ret         |-> s.ret]

NoSend == [ret |-> "unit", attempts |-> << >>]

\* StatsdOutlet::count
count(self, key, value, state, now, io) ==
    LET a == accept_sample(self.int_rate, state, now)
    IN  IF a.accept
            THEN Effect(a, send(self, << key, << ":" >>, to_string(value), self.count_suffix >>, io), 0)
            ELSE Effect(a, NoSend, 0)

\* StatsdOutlet::gauge
gauge(self, key, value, state, now, io) ==
    LET a == accept_sample(self.int_rate, state, now)
    IN  IF a.accept
            THEN Effect(a, send(self, << key, << ":" >>, to_string(value), self.gauge_suffix >>, io), 0)
            ELSE Effect(a, NoSend, 0)

\* StatsdOutlet::time_interval_ms
time_interval_ms(self, key, interval_ms, state, now, io) ==
    LET a == accept_sample(self.int_rate, state, now)
    IN  IF a.accept
            THEN Effect(a, send_time_ms(self, key, interval_ms, io), 0)
            ELSE Effect(a, NoSend, 0)

\* a stop_time that takes the elapsed time before it samples
stop_time_eager(self, key, start_time, state, now, io) ==
    LET a == accept_sample(self.int_rate, state, now)
    IN  IF a.accept
            THEN Effect(a, send_time_ms(self, key, elapsed_ms(start_time, now), io), 1)
            ELSE Effect(a, NoSend, 1)

\* StatsdOutlet::stop_time: the clock is read only for an accepted sample
stop_time(self, key, start_time, state, now, io) ==
    LET a == accept_sample(self.int_rate, state, now)
    IN  IF a.accept
            THEN Effect(a, send_time_ms(self, key, elapsed_ms(start_time, now), io), 1)
            ELSE Effect(a, NoSend, 0)

(* ------------------------------ the state ------------------------------ *)
VARIABLES
    now,      \* the value precise_time_ns() returns, a u64
    pcg,      \* pcg[t]: thread t's PCG32_STATE, or Unseeded
    draws,    \* the metric calls made so far
    timer,    \* the StartTime the application holds, if any
    outlets,  \* the StatsdClient values constructed so far
    cfg,      \* cfg[i]: the arguments outlets[i] was constructed with
    sockets,  \* the UDP sockets open in the process
    lastNew,  \* the last call of StatsdClient::new and its result
    last      \* the last metric call and what it did

vars == << now, pcg, draws, timer, outlets, cfg, sockets, lastNew, last >>

Threads == {"t1", "t2"}
Range(f) == {f[i] : i \in DOMAIN f}

\* two clock readings 7045301481 ns apart: a generator seeded at the first,
\* 1000011331951625, returns 0 from its first random(), and one seeded at the
\* second, 1000018377253106, returns u32::MAX
T_ZERO == << 9, 92, 54, 72, 129, 141, 3, 0 >>
T_MAX == << 242, 32, 37, 236, 130, 141, 3, 0 >>
ClockReadings == << T_ZERO, T_MAX >>

\* the destinations and prefixes clients are constructed with
Targets == {[address |-> "h1:8125", prefix_str |-> << >>],
            [address |-> "h2:8125", prefix_str |-> << "a", ".", "b" >>]}
NoAddress == "none"
\* rates from -1/RateDen to 1 + 1/RateDen
Rates == (0 - 1) .. (RateDen + 1)
ValidRates == 0 .. FULL_SAMPLING_RATE
ShortKey == << "k", "e", "y" >>
LongKey == [i \in 1 .. LongKeyLen |-> "k"]
Keys == {ShortKey, LongKey}
\* the key and value of a metric call
Inputs == {[key |-> ShortKey, value |-> U64(22)], [key |-> LongKey, value |-> U64_MAX]}
\* what UdpSocket::send can return: all sent, a short write, or an error
SendResults == {"Ok", "Short", "WouldBlock", "Refused"}
\* the call of StatsdClient::new that fails, if any
SetupFailures == {"none", "bind", "set_nonblocking", "connect"}
None == << >>

\* UdpSocket::bind("0.0.0.0:0"): a new socket on the lowest free descriptor
bind ==
    [fd          |-> CHOOSE n \in 1 .. (Cardinality(sockets) + 1) :
                        /\ \A s \in sockets : s.fd # n
                        /\ \A m \in 1 .. (n - 1) : \E s \in sockets : s.fd = m,
     nonblocking |-> FALSE,
     peer        |-> NoAddress]

\* UdpSocket::set_nonblocking(true)
set_nonblocking(sock) == [sock EXCEPT !.nonblocking = TRUE]

\* a connect that keeps the peer of the socket the process opened first
connect_first_wins(sock, address) ==
    [sock EXCEPT !.peer = IF sockets = {} THEN address
                          ELSE (CHOOSE s \in sockets : s.fd = 1).peer]

\* UdpSocket::connect(address)
connect(sock, address) == [sock EXCEPT !.peer = address]

\* StatsdClient::new: each ? returns the io error and drops the socket; a
\* panic in outlet() unwinds through new and drops the socket as well
StatsdClient_new(address, prefix_str, float_rate, fail) ==
    IF fail = "bind" THEN [result |-> "Err", value |-> << >>]
    ELSE IF fail = "set_nonblocking" THEN [result |-> "Err", value |-> << >>]
    ELSE IF fail = "connect" THEN [result |-> "Err", value |-> << >>]
    ELSE outlet(connect(set_nonblocking(bind), address), prefix_str, float_rate)

NoCall ==
    [op |-> "none", outlet |-> 0, key |-> << >>, arg |-> U64(0),
     now |-> U64(0), seeded |-> FALSE, rnd |-> U32_ZERO, accepted |-> FALSE,
     draws |-> 0, clock_reads |-> 0, attempts |-> << >>, ret |-> "unit"]

NoNew ==
    [rate |-> FULL_SAMPLING_RATE, fail |-> "none", result |-> "none", made |-> FALSE]

Init ==
    /\ now = ClockReadings[1]
    /\ pcg = [t \in Threads |-> Unseeded]
    /\ draws = 0
    /\ timer = None
    /\ outlets = << >>
    /\ cfg = << >>
    /\ sockets = {}
    /\ lastNew = NoNew
    /\ last = NoCall

(* ------------------------------ the actions ---------------------------- *)
\* the clock advances to its next reading
Tick ==
    /\ \E i \in 1 .. (Len(ClockReadings) - 1) :
          /\ now = ClockReadings[i]
          /\ now' = ClockReadings[i + 1]
    /\ UNCHANGED << pcg, draws, timer, outlets, cfg, sockets, lastNew, last >>

\* a thread calls StatsdClient::new; the sockets left open are those the
\* returned clients own
New(address, prefix_str, float_rate, fail) ==
    /\ Len(outlets) < MaxOutlets
    /\ LET r == StatsdClient_new(address, prefix_str, float_rate, fail)
       IN  /\ outlets' = outlets \o r.value
           /\ cfg' = IF r.value = << >> THEN cfg
                     ELSE Append(cfg, [address |-> address, prefix_str |-> prefix_str,
                                       float_rate |-> float_rate])
           /\ sockets' = sockets \cup {o.sender : o \in Range(r.value)}
           /\ lastNew' = [rate |-> float_rate, fail |-> fail,
                          result |-> r.result, made |-> r.value # << >>]
    /\ UNCHANGED << now, pcg, draws, timer, last >>

\* the bookkeeping common to the metric calls
Called(t, o, op, key, arg, e) ==
    /\ pcg' = [pcg EXCEPT ![t] = e.state]
    /\ draws' = draws + 1
    /\ last' = [op |-> op, outlet |-> o, key |-> key, arg |-> arg,
                now |-> now, seeded |-> pcg[t] = Unseeded, rnd |-> e.rnd,
                accepted |-> e.accepted, draws |-> e.draws,
                clock_reads |-> e.clock_reads, attempts |-> e.attempts, ret |-> e.ret]

CanCall(t, o) ==
    /\ o \in 1 .. Len(outlets)
    /\ draws < MaxDraws

\* the results the socket can give thread t's next call on outlet o: the
\* socket is consulted only when the sample is accepted
IoChoices(t, o) ==
    IF accept_sample(outlets[o].int_rate, pcg[t], now).accept THEN SendResults ELSE {"Ok"}

Count(t, o, key, value) ==
    /\ CanCall(t, o)
    /\ \E io \in IoChoices(t, o) :
          Called(t, o, "count", key, value, count(outlets[o], key, value, pcg[t], now, io))
    /\ UNCHANGED << now, timer, outlets, cfg, sockets, lastNew >>

Gauge(t, o, key, value) ==
    /\ CanCall(t, o)
    /\ \E io \in IoChoices(t, o) :
          Called(t, o, "gauge", key, value, gauge(outlets[o], key, value, pcg[t], now, io))
    /\ UNCHANGED << now, timer, outlets, cfg, sockets, lastNew >>

TimeIntervalMs(t, o, key, value) ==
    /\ CanCall(t, o)
    /\ \E io \in IoChoices(t, o) :
          Called(t, o, "time_interval_ms", key, value,
                 time_interval_ms(outlets[o], key, value, pcg[t], now, io))
    /\ UNCHANGED << now, timer, outlets, cfg, sockets, lastNew >>

\* StatsdOutlet::start_time: StartTime(precise_time_ns())
StartTimer(o) ==
    /\ o \in 1 .. Len(outlets)
    /\ timer = None
    /\ timer' = now
    /\ UNCHANGED << now, pcg, draws, outlets, cfg, sockets, lastNew, last >>

\* stop_time consumes the StartTime
StopTime(t, o, key) ==
    /\ CanCall(t, o)
    /\ timer # None
    /\ \E io \in IoChoices(t, o) :
          Called(t, o, "stop_time", key, timer,
                 stop_time(outlets[o], key, timer, pcg[t], now, io))
    /\ timer' = None
    /\ UNCHANGED << now, outlets, cfg, sockets, lastNew >>

\* one client, constructed with valid arguments, used by all the threads
Next ==
    \/ Tick
    \/ \E g \in Targets, r \in ValidRates :
          /\ outlets = << >>
          /\ New(g.address, g.prefix_str, r, "none")
    \/ \E t \in Threads, o \in 1 .. MaxOutlets, i \in Inputs :
          \/ Count(t, o, i.key, i.value)
          \/ Gauge(t, o, i.key, i.value)
          \/ TimeIntervalMs(t, o, i.key, i.value)
    \/ \E o \in 1 .. MaxOutlets : StartTimer(o)
    \/ \E t \in Threads, o \in 1 .. MaxOutlets, k \in Keys : StopTime(t, o, k)

Spec == Init /\ [][Next]_vars

\* clients constructed with any arguments, setup failures included, and
\* counts reported through them
InitNew == Init

NextNew ==
    \/ \E g \in Targets, r \in Rates, f \in SetupFailures :
          New(g.address, g.prefix_str, r, f)
    \/ \E o \in 1 .. MaxOutlets : Count("t1", o, ShortKey, U64(22))

SpecNew == InitNew /\ [][NextNew]_vars

(* ------------------------------ the claims ----------------------------- *)
\* the arguments the outlet of the last metric call was constructed with
LastCfg == cfg[last.outlet]
LastOutlet == outlets[last.outlet]
Called3 == last.op \in {"count", "gauge", "time_interval_ms"}
Called4 == last.op \in {"count", "gauge", "time_interval_ms", "stop_time"}
Dispatched == {last.attempts[i].payload : i \in DOMAIN last.attempts}
OutOfRange(r) == r < 0 \/ r > FULL_SAMPLING_RATE

\* the unit tag of the last call's metric kind
LastUnit ==
    IF last.op = "count" THEN << "|", "c" >>
    ELSE IF last.op = "gauge" THEN << "|", "g" >>
    ELSE << "|", "m", "s" >>

\* the suffix field of the outlet the last call used
LastSuffix ==
    IF last.op = "count" THEN LastOutlet.count_suffix
    ELSE IF last.op = "gauge" THEN LastOutlet.gauge_suffix
    ELSE LastOutlet.time_suffix

\* the value text of the last call: the value given, or for stop_time the
\* whole milliseconds between the StartTime and the clock at the call
LastValueText ==
    IF last.op = "stop_time"
        THEN to_string(DivMod(wrapping_sub(last.now, last.arg), NS_PER_MS).q)
        ELSE to_string(last.arg)

\* C1: with rate 1.0 every count, gauge or time_interval_ms call dispatches
\* exactly one payload, and that payload has no "|@" rate suffix.
C1_FullRateDispatchesOnce ==
    (Called3 /\ LastCfg.float_rate = FULL_SAMPLING_RATE)
        => /\ Len(last.attempts) = 1
           /\ \A p \in Dispatched : ~HasRateTag(p)

\* C2: every dispatched payload is <prefix><key>:<value><unit><rate-suffix>,
\* the unit being |c, |g or |ms and the rate suffix empty at rate 1.0 and
\* "|@<rate>" below 1.0.
C2_PayloadFormat ==
    Called4 =>
        \A p \in Dispatched :
            p = LastCfg.prefix_str \o last.key \o << ":" >> \o LastValueText \o LastUnit
                  \o (IF LastCfg.float_rate = FULL_SAMPLING_RATE THEN << >>
                      ELSE << "|", "@" >> \o fmt_f64(LastCfg.float_rate))

\* a timing payload with a rate suffix was dispatched by stop_time
C2_Witness ==
    /\ last.op = "stop_time"
    /\ LastCfg.float_rate < FULL_SAMPLING_RATE
    /\ Dispatched # {}

\* C3 as stated: a construction with a rate outside [0.0, 1.0] returns a
\* configuration error to its caller, produces no outlet and leaves no socket.
C3_OutOfRangeReturnsError ==
    (lastNew.result # "none" /\ OutOfRange(lastNew.rate))
        => /\ lastNew.result = "Err"
           /\ ~lastNew.made
           /\ \A s \in sockets : \E i \in DOMAIN outlets : outlets[i].sender = s

\* C3 amended: a construction with a rate outside [0.0, 1.0] never produces
\* an outlet and never clamps the rate: when the socket setup succeeded it
\* panics on the range assertion (it returns an error only when the setup
\* itself failed), and every socket left open is owned by an outlet.
C3_OutOfRangeFails ==
    /\ (lastNew.result # "none" /\ OutOfRange(lastNew.rate))
          => /\ ~lastNew.made
             /\ lastNew.result = (IF lastNew.fail = "none" THEN "panic" ELSE "Err")
    /\ \A i \in DOMAIN cfg : ~OutOfRange(cfg[i].float_rate)
    /\ \A s \in sockets : \E i \in DOMAIN outlets : outlets[i].sender = s

\* an out-of-range construction panicked while an earlier outlet exists
C3_Witness ==
    /\ lastNew.result = "panic"
    /\ OutOfRange(lastNew.rate)
    /\ Len(outlets) >= 1

\* C4: rate 1.0 converts to threshold 0, rate 0.0 to u32::MAX, and the
\* conversion is non-increasing in the rate.
C4_ThresholdMonotone ==
    \A i \in DOMAIN outlets :
        /\ cfg[i].float_rate = FULL_SAMPLING_RATE => outlets[i].int_rate = U32_ZERO
        /\ cfg[i].float_rate = 0 => outlets[i].int_rate = U32_MAX
        /\ \A j \in DOMAIN outlets :
              cfg[i].float_rate <= cfg[j].float_rate
                  => ~Gt(outlets[j].int_rate, outlets[i].int_rate)

\* outlets with rates 0.0 and 1.0 were both constructed
C4_Witness ==
    \E i, j \in DOMAIN outlets :
        /\ cfg[i].float_rate = 0
        /\ cfg[j].float_rate = FULL_SAMPLING_RATE
        /\ Gt(outlets[i].int_rate, outlets[j].int_rate)

\* C5 as stated: at most one transport endpoint is ever live in the process.
C5_SingleEndpoint == Cardinality(sockets) <= 1

\* C5 amended: every successful construction opens an endpoint of its own,
\* connected to the address given to that construction; a later construction
\* succeeds without changing an earlier outlet, and each outlet's sends go to
\* its own address.
C5_EndpointPerOutlet ==
    /\ Cardinality(sockets) = Len(outlets)
    /\ \A i \in DOMAIN outlets :
          /\ outlets[i].sender \in sockets
          /\ outlets[i].sender.peer = cfg[i].address
          /\ \A j \in DOMAIN outlets : i # j => outlets[i].sender.fd # outlets[j].sender.fd
    /\ \A i \in DOMAIN last.attempts : last.attempts[i].dest = LastCfg.address
    /\ (lastNew.fail = "none" /\ ~OutOfRange(lastNew.rate) /\ lastNew.result # "none")
          => lastNew.result = "Ok"

\* the first outlet sent a payload while a second outlet for another
\* address exists
C5_Witness ==
    /\ Len(outlets) = 2
    /\ cfg[1].address # cfg[2].address
    /\ last.outlet = 1
    /\ Dispatched # {}

\* C6 as stated: the prefix in a payload is the given prefix with a '.'
\* appended when it does not end with one.
C6_PrefixNormalized ==
    Called4 =>
        \A p \in Dispatched :
            LET head == with_separator(LastCfg.prefix_str) \o last.key \o << ":" >>
            IN  Len(p) >= Len(head) /\ SubSeq(p, 1, Len(head)) = head

\* C6 amended: the prefix in a payload is exactly the text given at
\* construction; no separator is appended.
C6_PrefixVerbatim ==
    Called4 =>
        \A p \in Dispatched :
            LET head == LastCfg.prefix_str \o last.key \o << ":" >>
            IN  Len(p) >= Len(head) /\ SubSeq(p, 1, Len(head)) = head

\* a payload was dispatched by an outlet whose prefix does not end with '.'
C6_Witness ==
    /\ Dispatched # {}
    /\ Len(LastCfg.prefix_str) > 0
    /\ LastCfg.prefix_str[Len(LastCfg.prefix_str)] # "."

\* C7: whatever the transmission does, a metric call returns normally with
\* no error value, makes no second attempt, and leaves the outlets and
\* their sockets as they were.
C7_FireAndForget ==
    /\ [](Called4 => (last.ret = "unit" /\ Len(last.attempts) <= 1))
    /\ [][last' # last => (outlets' = outlets /\ sockets' = sockets)]_vars

\* a call whose transmission was refused has returned
C7_Witness ==
    /\ Called4
    /\ Len(last.attempts) = 1
    /\ last.attempts[1].io = "Refused"

C9_ZeroRateNeverSends ==
    (Called4 /\ LastCfg.float_rate = 0) => last.attempts = << >>

\* a rate 0.0 outlet was called and the generator drew u32::MAX
C9_Witness ==
    /\ Called4
    /\ LastCfg.float_rate = 0
    /\ last.rnd = U32_MAX

\* C10 as stated: a call draws one sampler decision (value > threshold),
\* transmits once when it accepts and not at all when it rejects, and a
\* rejected stop_time reads no clock.
C10_OneDrawNoClock ==
    Called4 =>
        /\ last.draws = 1
        /\ last.accepted = Gt(last.rnd, LastOutlet.int_rate)
        /\ Len(last.attempts) = (IF last.accepted THEN 1 ELSE 0)
        /\ (last.op = "stop_time" /\ ~last.accepted) => last.clock_reads = 0

\* C10 amended: as stated, except that a rejected stop_time reads the clock
\* once when its draw is the calling thread's first and seeds the generator.
C10_OneDrawSeedClock ==
    Called4 =>
        /\ last.draws = 1
        /\ last.accepted = Gt(last.rnd, LastOutlet.int_rate)
        /\ Len(last.attempts) = (IF last.accepted THEN 1 ELSE 0)
        /\ (last.op = "stop_time" /\ ~last.accepted)
              => last.clock_reads = (IF last.seeded THEN 1 ELSE 0)

\* a stop_time was rejected on a thread whose generator was already seeded
C10_Witness ==
    /\ last.op = "stop_time"
    /\ ~last.accepted
    /\ ~last.seeded
====
